---- MODULE Spec2Model ----
(***************************************************************************)
(* The Stripe Checkout demo: the Express endpoint                          *)
(* POST /create-checkout-session (server/server.js), the server's startup  *)
(* and the React form handler handleCheckout (client/src/App.jsx).         *)
(***************************************************************************)
EXTENDS Integers, Sequences, FiniteSets, TLC

VARIABLES env, proc, req, stripeCalls,
          form, loading, cpc, outbox, reply, location, alert, fetches

srvVars == <<env, proc, req, stripeCalls>>
cliVars == <<form, loading, cpc, outbox, reply, location, alert, fetches>>
vars == <<env, proc, req, stripeCalls,
          form, loading, cpc, outbox, reply, location, alert, fetches>>

(***************************************************************************)
(* Bounds of the model.                                                    *)
(***************************************************************************)
\* request slots of the specification that draws bodies from the whole product
MaxRequests == 1
\* requests in flight at once in the specification of concurrent handlers
MaxInFlight == 2

(***************************************************************************)
(* JavaScript values.  A number is the reduced fraction n/d (d = 0 is      *)
(* NaN); an object only records whether an own, non-callable "toString"    *)
(* property shadows Object.prototype.toString (n = 1) or not (n = 0).      *)
(***************************************************************************)
Undefined == [t |-> "undefined", n |-> 0, d |-> 1, s |-> ""]
Null == [t |-> "null", n |-> 0, d |-> 1, s |-> ""]
Num(n, d) == [t |-> "number", n |-> n, d |-> d, s |-> ""]
NaN == [t |-> "number", n |-> 0, d |-> 0, s |-> ""]
Str(s) == [t |-> "string", n |-> 0, d |-> 1, s |-> s]
Obj(shadowed) == [t |-> "object", n |-> IF shadowed THEN 1 ELSE 0, d |-> 1, s |-> ""]

\* ToBoolean, as used by `||` and `if`
Truthy(v) ==
  CASE v.t = "undefined" -> FALSE
    [] v.t = "null" -> FALSE
    [] v.t = "number" -> v.d # 0 /\ v.n # 0
    [] v.t = "string" -> v.s # ""
    [] OTHER -> TRUE

\* a || b
Or(a, b) == IF Truthy(a) THEN a ELSE b

Abs(n) == IF n < 0 THEN -n ELSE n

RECURSIVE Gcd(_, _)
Gcd(a, b) == IF b = 0 THEN a ELSE Gcd(b, a % b)

\* the number n/d in lowest terms
Reduced(n, d) == LET g == Gcd(Abs(n), d) IN Num(n \div g, d \div g)

Digits == <<"0", "1", "2", "3", "4", "5", "6", "7", "8", "9">>

RECURSIVE Decimal(_)
\* the decimal numeral of a natural number
Decimal(n) == IF n < 10 THEN Digits[n + 1] ELSE Decimal(n \div 10) \o Digits[(n % 10) + 1]

RECURSIVE FractionDigits(_, _)
\* the digits after the point of r/d, for 0 <= r < d and d a product of 2s and 5s
FractionDigits(r, d) ==
  IF r = 0 THEN "" ELSE Digits[((10 * r) \div d) + 1] \o FractionDigits((10 * r) % d, d)

\* Number.prototype.toString for the finite numbers of the model
NumberToString(v) ==
  IF v.d = 0 THEN "NaN"
  ELSE (IF v.n < 0 THEN "-" ELSE "")
         \o Decimal(Abs(v.n) \div v.d)
         \o (IF Abs(v.n) % v.d = 0 THEN "" ELSE "." \o FractionDigits(Abs(v.n) % v.d, v.d))

\* String(v) throws a TypeError when OrdinaryToPrimitive finds no primitive
StringThrows(v) == v.t = "object" /\ v.n = 1

ToPrimitiveError == "Cannot convert object to primitive value"

\* String(v), for the values on which it does not throw
String(v) ==
  CASE v.t = "string" -> v.s
    [] v.t = "number" -> NumberToString(v)
    [] v.t = "null" -> "null"
    [] v.t = "undefined" -> "undefined"
    [] OTHER -> "[object Object]"

IsDigit(c) == \E k \in 1..10 : Digits[k] = c
DigitValue(c) == (CHOOSE k \in 1..10 : Digits[k] = c) - 1
AllDigits(s) == \A i \in 1..Len(s) : IsDigit(SubSeq(s, i, i))

RECURSIVE NatOf(_)
\* the value of a string of decimal digits
NatOf(s) ==
  IF Len(s) = 0 THEN 0
  ELSE 10 * NatOf(SubSeq(s, 1, Len(s) - 1)) + DigitValue(SubSeq(s, Len(s), Len(s)))

RECURSIVE Pow10(_)
Pow10(k) == IF k = 0 THEN 1 ELSE 10 * Pow10(k - 1)

\* Number(s) for a string: "" is 0, a signed decimal literal is its value, else NaN
StringToNumber(s) ==
  LET neg == Len(s) > 0 /\ SubSeq(s, 1, 1) = "-"
      u == IF neg THEN SubSeq(s, 2, Len(s)) ELSE s
      sign == IF neg THEN -1 ELSE 1
      dots == {i \in 1..Len(u) : SubSeq(u, i, i) = "."}
  IN IF Len(s) = 0 THEN Num(0, 1)
     ELSE IF dots = {}
     THEN IF Len(u) > 0 /\ AllDigits(u) THEN Num(sign * NatOf(u), 1) ELSE NaN
     ELSE LET p == CHOOSE i \in dots : TRUE
              ip == SubSeq(u, 1, p - 1)
              fp == SubSeq(u, p + 1, Len(u))
          IN IF Cardinality(dots) = 1 /\ Len(ip) + Len(fp) > 0 /\ AllDigits(ip) /\ AllDigits(fp)
             THEN Reduced(sign * (NatOf(ip) * Pow10(Len(fp)) + NatOf(fp)), Pow10(Len(fp)))
             ELSE NaN

(***************************************************************************)
(* server/server.js                                                        *)
(***************************************************************************)
DefaultPrice == 1500
DefaultQuantity == 1
DefaultName == "Test Product"
DefaultFrontend == "http://localhost:3000"
ValidationMessage == "price must be a positive integer (in cents)"

\* req.body as express.json() leaves it: parsed = FALSE when no JSON body was
\* read, else the three properties the handler looks at (Undefined = no such key)
Body(price, quantity, name) ==
  [parsed |-> TRUE, price |-> price, quantity |-> quantity, name |-> name]
NoBody == [parsed |-> FALSE, price |-> Undefined, quantity |-> Undefined, name |-> Undefined]

\* what the provider's promise can settle with
ProviderUrls == {"https://payments.example/session/abc", "X"}
ProviderErrors == {"auth failed", "rate limited"}

NoPromise == [state |-> "none", value |-> ""]
NoRes == [status |-> 0, url |-> Undefined, error |-> Undefined]
Idle == [phase |-> "idle", body |-> NoBody, promise |-> NoPromise, res |-> NoRes, logged |-> 0]

\* a destructuring default applies to undefined only
Default(v, dflt) == IF v.t = "undefined" THEN dflt ELSE v

\* variant: defaults taken with `||`, so that every falsy value is replaced
DestructureWithOr(body) ==
  LET b == IF body.parsed THEN body ELSE Body(Undefined, Undefined, Undefined)
  IN [price |-> Or(b.price, Num(DefaultPrice, 1)),
      quantity |-> Or(b.quantity, Num(DefaultQuantity, 1)),
      name |-> Or(b.name, Str(DefaultName))]

\* const { price = 1500, quantity = 1, name = 'Test Product' } = req.body || {};
Destructure(body) ==
  LET b == IF body.parsed THEN body ELSE Body(Undefined, Undefined, Undefined)
  IN [price |-> Default(b.price, Num(DefaultPrice, 1)),
      quantity |-> Default(b.quantity, Num(DefaultQuantity, 1)),
      name |-> Default(b.name, Str(DefaultName))]

\* Number.isInteger(v)
IsInteger(v) == v.t = "number" /\ v.d = 1

\* variant: price < 0 in place of price <= 0
PriceInvalidBelowZero(price) == ~IsInteger(price) \/ price.n < 0

\* !Number.isInteger(price) || price <= 0
PriceInvalid(price) == ~IsInteger(price) \/ price.n <= 0

\* process.env.FRONTEND_URL || 'http://localhost:3000'
YourDomain(e) == Or(e.FRONTEND_URL, Str(DefaultFrontend)).s

\* parseInt(v, 10) for the values of the model
ParseInt(v) ==
  LET x == IF v.t = "string" THEN StringToNumber(v.s) ELSE v
  IN IF x.t = "number" /\ x.d # 0
     THEN Num((IF x.n < 0 THEN -1 ELSE 1) * (Abs(x.n) \div x.d), 1)
     ELSE NaN

\* variant: the quantity is coerced to an integer before it is forwarded
SessionParamsCoerced(a, e) ==
  [mode |-> "payment",
   payment_method_types |-> <<"card">>,
   currency |-> "eur",
   name |-> String(a.name),
   unit_amount |-> a.price,
   quantity |-> ParseInt(a.quantity),
   success_url |-> Or(e.FRONTEND_URL, Str(DefaultFrontend)).s \o "/success?session_id={CHECKOUT_SESSION_ID}",
   cancel_url |-> Or(e.FRONTEND_URL, Str(DefaultFrontend)).s \o "/cancelled"]

\* the argument of stripe.checkout.sessions.create
SessionParams(a, e) ==
  [mode |-> "payment",
   payment_method_types |-> <<"card">>,
   currency |-> "eur",
   name |-> String(a.name),
   unit_amount |-> a.price,
   quantity |-> a.quantity,
   success_url |-> YourDomain(e) \o "/success?session_id={CHECKOUT_SESSION_ID}",
   cancel_url |-> YourDomain(e) \o "/cancelled"]

\* res.status(400).json({ error: ... })
ValidationResponse == [status |-> 400, url |-> Undefined, error |-> Str(ValidationMessage)]

\* variant: the success redirect target is sent in place of session.url
SuccessResponseOwnUrl(url) ==
  [status |-> 200, url |-> Str(DefaultFrontend \o "/success"), error |-> Undefined]

\* res.json({ url: session.url })
SuccessResponse(url) == [status |-> 200, url |-> Str(url), error |-> Undefined]

\* variant: a generic message in place of err.message
CatchResponseGeneric(message) ==
  [status |-> 500, url |-> Undefined, error |-> Str("Internal Server Error")]

\* res.status(500).json({ error: err.message })
CatchResponse(message) == [status |-> 500, url |-> Undefined, error |-> Str(message)]

\* variant: stripeSecret === undefined, which lets an empty key through
MissingSecretStrict(e) == e.STRIPE_SECRET_KEY.t = "undefined"

\* if (!stripeSecret)
MissingSecret(e) == ~Truthy(e.STRIPE_SECRET_KEY)

\* variant: the session is kept in a variable shared by all handlers, which
\* holds the promise of the call made last (here: of the highest slot in use)
SessionShared(r) ==
  LET used == {q \in DOMAIN req : req[q].promise.state # "none"}
  IN IF used = {} THEN req[r].promise
     ELSE req[CHOOSE q \in used : \A o \in used : o <= q].promise

\* the promise the handler of request r awaits
SessionOf(r) == req[r].promise

\* variant: the call is not awaited
SettledOrNot(p) == TRUE

\* `await` lets the handler go on once the promise has settled
Settled(p) == p.state \in {"fulfilled", "rejected"}

\* module top level: the credential check, then app.listen
Start ==
  /\ proc = "boot"
  /\ proc' = IF MissingSecret(env) THEN "exited" ELSE "listening"
  /\ UNCHANGED <<env, req, stripeCalls>>
  /\ UNCHANGED cliVars

\* the handler of POST /create-checkout-session, up to its first await
\* (the sender's side of the exchange is stated by the action that uses it)
Receive(r, body) ==
  /\ proc = "listening"
  /\ req[r].phase = "idle"
  /\ LET a == Destructure(body) IN
       IF PriceInvalid(a.price)
       THEN /\ req' = [req EXCEPT ![r] = [Idle EXCEPT !.phase = "done", !.body = body,
                                                       !.res = ValidationResponse]]
            /\ UNCHANGED stripeCalls
       ELSE IF StringThrows(a.name)
       THEN /\ req' = [req EXCEPT ![r] = [Idle EXCEPT !.phase = "done", !.body = body,
                                                       !.res = CatchResponse(ToPrimitiveError),
                                                       !.logged = 1]]
            /\ UNCHANGED stripeCalls
       ELSE /\ req' = [req EXCEPT ![r] = [Idle EXCEPT !.phase = "awaiting", !.body = body,
                                                       !.promise = [state |-> "pending", value |-> ""]]]
            /\ stripeCalls' = [stripeCalls EXCEPT ![r] = Append(@, SessionParams(a, env))]
  /\ UNCHANGED <<env, proc>>

\* the provider answers the call made for request r with a session
ProviderFulfil(r, url) ==
  /\ req[r].promise.state = "pending"
  /\ req' = [req EXCEPT ![r].promise = [state |-> "fulfilled", value |-> url]]
  /\ UNCHANGED <<env, proc, stripeCalls>>
  /\ UNCHANGED cliVars

\* the call made for request r fails
ProviderReject(r, message) ==
  /\ req[r].promise.state = "pending"
  /\ req' = [req EXCEPT ![r].promise = [state |-> "rejected", value |-> message]]
  /\ UNCHANGED <<env, proc, stripeCalls>>
  /\ UNCHANGED cliVars

\* the handler after its await: res.json, or the catch block
Resume(r) ==
  /\ proc = "listening"
  /\ req[r].phase = "awaiting"
  /\ Settled(SessionOf(r))
  /\ req' = [req EXCEPT ![r] =
               IF SessionOf(r).state = "fulfilled"
               THEN [@ EXCEPT !.phase = "done", !.res = SuccessResponse(SessionOf(r).value)]
               ELSE [@ EXCEPT !.phase = "done", !.res = CatchResponse(SessionOf(r).value),
                              !.logged = @ + 1]]
  /\ UNCHANGED <<env, proc, stripeCalls>>
  /\ UNCHANGED cliVars

\* the response has gone out and the request's scope is dropped
Close(r) ==
  /\ req[r].phase = "done"
  /\ req' = [req EXCEPT ![r] = Idle]
  /\ stripeCalls' = [stripeCalls EXCEPT ![r] = <<>>]
  /\ UNCHANGED <<env, proc>>
  /\ UNCHANGED cliVars

\* a request sent to the endpoint by any HTTP client
Request(r, body) == Receive(r, body) /\ UNCHANGED cliVars

(***************************************************************************)
(* client/src/App.jsx                                                      *)
(***************************************************************************)
UnknownError == "Unknown error"
RequestFailed == "Request failed"

\* Number(v) for the values the form state holds
ToNumber(v) == IF v.t = "number" THEN v ELSE StringToNumber(v.s)

\* JSON.stringify writes NaN as null; express.json() reads the rest back unchanged
JsonValue(v) == IF v.t = "number" /\ v.d = 0 THEN Null ELSE v

\* JSON.stringify({ price: Number(price), quantity: Number(quantity), name })
RequestBody(f) ==
  Body(JsonValue(ToNumber(f.price)), JsonValue(ToNumber(f.quantity)), JsonValue(f.name))

\* what the user can type into the three inputs
NameInputs == {"Widget", ""}
PriceInputs == {"", "2000", "-1", "1.5"}
QuantityInputs == {"", "2", "0"}

\* constraint validation of <input type="number" min=...>: the default step is 1,
\* an empty value is valid, and an invalid field blocks the submit event
NumberInputValid(v, hasMin, min) ==
  \/ v.t = "string" /\ v.s = ""
  \/ LET x == ToNumber(v) IN IsInteger(x) /\ (hasMin => x.n >= min)
FormValidates(f) ==
  /\ NumberInputValid(f.price, FALSE, 0)
  /\ NumberInputValid(f.quantity, TRUE, 1)

NoReply == [kind |-> "none", url |-> Undefined, error |-> Undefined]
FailedReply == [kind |-> "failed", url |-> Undefined, error |-> Undefined]
\* answers that do not come from this server: not JSON, JSON null, an empty object
ForeignReplies ==
  {[kind |-> "invalid", url |-> Undefined, error |-> Undefined],
   [kind |-> "null", url |-> Undefined, error |-> Undefined],
   [kind |-> "object", url |-> Undefined, error |-> Undefined]}
\* the JSON document the server's response carries
ReplyOf(res) == [kind |-> "object", url |-> res.url, error |-> res.error]

\* alert(data.error || 'Unknown error')
AlertText(data) == String(Or(data.error, Str(UnknownError)))

\* if (data.url)
HasUrl(data) == Truthy(data.url)

\* variant: setLoading(false) only on the path that does not throw or return
FinallySkipped(l) == l

\* finally { setLoading(false) }
Finally(l) == FALSE

\* onChange of the three inputs
SetName(s) ==
  /\ location = ""
  /\ form' = [form EXCEPT !.name = Str(s)]
  /\ UNCHANGED <<loading, cpc, outbox, reply, location, alert, fetches>>
  /\ UNCHANGED srvVars
SetPrice(s) ==
  /\ location = ""
  /\ form' = [form EXCEPT !.price = Str(s)]
  /\ UNCHANGED <<loading, cpc, outbox, reply, location, alert, fetches>>
  /\ UNCHANGED srvVars
SetQuantity(s) ==
  /\ location = ""
  /\ form' = [form EXCEPT !.quantity = Str(s)]
  /\ UNCHANGED <<loading, cpc, outbox, reply, location, alert, fetches>>
  /\ UNCHANGED srvVars

\* handleCheckout up to `await fetch(...)`; the button is disabled while loading,
\* and the modal alert of an earlier submit has been dismissed
Submit ==
  /\ location = ""
  /\ cpc = "idle"
  /\ ~loading
  /\ FormValidates(form)
  /\ loading' = TRUE
  /\ outbox' = RequestBody(form)
  /\ reply' = NoReply
  /\ alert' = ""
  /\ cpc' = "fetch"
  /\ fetches' = 1
  /\ UNCHANGED <<form, location>>
  /\ UNCHANGED srvVars

\* the client's request reaches the endpoint
ClientRequest ==
  /\ cpc = "fetch"
  /\ outbox.parsed
  /\ Receive(1, outbox)
  /\ outbox' = NoBody
  /\ UNCHANGED <<form, loading, cpc, reply, location, alert, fetches>>

\* fetch resolves with the server's response; the handler calls res.json()
FetchResolve ==
  /\ cpc = "fetch"
  /\ ~outbox.parsed
  /\ req[1].phase = "done"
  /\ reply' = ReplyOf(req[1].res)
  /\ cpc' = "json"
  /\ req' = [req EXCEPT ![1] = Idle]
  /\ stripeCalls' = [stripeCalls EXCEPT ![1] = <<>>]
  /\ UNCHANGED <<env, proc>>
  /\ UNCHANGED <<form, loading, outbox, location, alert, fetches>>

\* fetch resolves with something this server did not send
ForeignReply(rep) ==
  /\ cpc = "fetch"
  /\ outbox.parsed
  /\ reply' = rep
  /\ cpc' = "json"
  /\ outbox' = NoBody
  /\ UNCHANGED <<form, loading, location, alert, fetches>>
  /\ UNCHANGED srvVars

\* fetch rejects (no server, network error): catch, then finally
FetchReject ==
  /\ cpc = "fetch"
  /\ reply' = FailedReply
  /\ alert' = RequestFailed
  /\ loading' = Finally(loading)
  /\ cpc' = "idle"
  /\ outbox' = NoBody
  /\ UNCHANGED <<form, location, fetches>>
  /\ UNCHANGED srvVars

\* res.json() settles and the handler runs to its end
ParseReply ==
  /\ cpc = "json"
  /\ IF reply.kind \in {"invalid", "null"}
     THEN /\ alert' = RequestFailed
          /\ UNCHANGED location
     ELSE IF HasUrl(reply)
     THEN /\ location' = String(reply.url)
          /\ UNCHANGED alert
     ELSE /\ alert' = AlertText(reply)
          /\ UNCHANGED location
  /\ loading' = Finally(loading)
  /\ cpc' = "idle"
  /\ UNCHANGED <<form, outbox, reply, fetches>>
  /\ UNCHANGED srvVars

(***************************************************************************)
(* Specifications                                                          *)
(***************************************************************************)
Secrets == {Undefined, Str(""), Str("sk_test_xxx")}
Frontends == {Undefined, Str("https://shop.example")}

Prices == {Undefined, Null, Num(1, 1), Num(2000, 1), Num(0, 1), Num(-1, 1), Num(3, 2), Str("5")}
Quantities == {Undefined, Num(2, 1), Num(0, 1), Num(-1, 1), Num(3, 2), Str("2")}
Names == {Undefined, Str("Widget"), Num(5, 1), Obj(TRUE)}

\* every combination of the three fields, and no body at all
Bodies == {NoBody} \cup {Body(p, q, n) : p \in Prices, q \in Quantities, n \in Names}

\* a few bodies for the runs with several requests in flight
SomeBodies ==
  {NoBody,
   Body(Num(1, 1), Undefined, Undefined),
   Body(Num(2000, 1), Num(2, 1), Str("Widget")),
   Body(Num(1, 1), Undefined, Obj(TRUE)),
   Body(Num(0, 1), Undefined, Undefined),
   Body(Num(-1, 1), Num(2, 1), Str("Widget")),
   Body(Num(3, 2), Undefined, Undefined),
   Body(Str("5"), Undefined, Undefined)}

InitClient ==
  /\ form = [price |-> Num(DefaultPrice, 1), quantity |-> Num(DefaultQuantity, 1),
             name |-> Str(DefaultName)]
  /\ loading = FALSE
  /\ cpc = "idle"
  /\ outbox = NoBody
  /\ reply = NoReply
  /\ location = ""
  /\ alert = ""
  /\ fetches = 0

InitServer(n) ==
  /\ env \in [STRIPE_SECRET_KEY : Secrets, FRONTEND_URL : Frontends]
  /\ proc = "boot"
  /\ req = [r \in 1..n |-> Idle]
  /\ stripeCalls = [r \in 1..n |-> <<>>]

\* the endpoint, one request after the other, over every body
Init == InitServer(MaxRequests) /\ InitClient
Next ==
  \/ Start
  \/ \E r \in DOMAIN req, b \in Bodies : Request(r, b)
  \/ \E r \in DOMAIN req, u \in ProviderUrls : ProviderFulfil(r, u)
  \/ \E r \in DOMAIN req, m \in ProviderErrors : ProviderReject(r, m)
  \/ \E r \in DOMAIN req : Resume(r)
  \/ \E r \in DOMAIN req : Close(r)
Spec == Init /\ [][Next]_vars

\* the endpoint with several requests in flight
InitConcurrent == InitServer(MaxInFlight) /\ InitClient
NextConcurrent ==
  \/ Start
  \/ \E r \in DOMAIN req, b \in SomeBodies : Request(r, b)
  \/ \E r \in DOMAIN req, u \in ProviderUrls : ProviderFulfil(r, u)
  \/ \E r \in DOMAIN req, m \in ProviderErrors : ProviderReject(r, m)
  \/ \E r \in DOMAIN req : Resume(r)
  \/ \E r \in DOMAIN req : Close(r)
SpecConcurrent == InitConcurrent /\ [][NextConcurrent]_vars

\* the form, its handler and the endpoint serving it over one connection
InitPage == InitServer(1) /\ InitClient
NextPage ==
  \/ Start
  \/ \E s \in NameInputs : SetName(s)
  \/ \E s \in PriceInputs : SetPrice(s)
  \/ \E s \in QuantityInputs : SetQuantity(s)
  \/ Submit
  \/ ClientRequest
  \/ \E u \in ProviderUrls : ProviderFulfil(1, u)
  \/ \E m \in ProviderErrors : ProviderReject(1, m)
  \/ Resume(1)
  \/ Close(1)
  \/ FetchResolve
  \/ \E rep \in ForeignReplies : ForeignReply(rep)
  \/ FetchReject
  \/ ParseReply
SpecPage == InitPage /\ [][NextPage]_vars

(***************************************************************************)
(* Properties                                                              *)
(***************************************************************************)
Slots == DOMAIN req
Handled(r) == req[r].phase # "idle"
Present(b, field) == b.parsed /\ b[field].t # "undefined"
PositiveInteger(v) == v.t = "number" /\ v.d = 1 /\ v.n > 0
\* the descriptor of the call made for request r, when there is one
Called(r) == stripeCalls[r] # <<>>
Descriptor(r) == stripeCalls[r][1]

\* C1: a request whose price is present and is not a positive integer
\* (fractional, zero, negative, not a number) is answered 400 with the one fixed
\* message, and no call to the provider is made for it.
C1_InvalidPriceRejected ==
  \A r \in Slots :
    (Handled(r) /\ Present(req[r].body, "price") /\ ~PositiveInteger(req[r].body.price))
      => /\ req[r].res = [status |-> 400, url |-> Undefined,
                          error |-> Str("price must be a positive integer (in cents)")]
         /\ req[r].phase = "done"
         /\ req[r].promise.state = "none"
         /\ stripeCalls[r] = <<>>
C1_Witness ==
  \E r \in Slots :
    /\ req[r].body.price \in {Num(0, 1), Num(-1, 1), Num(3, 2), Str("5"), Null}
    /\ req[r].res.status = 400
    /\ stripeCalls[r] = <<>>

\* C2: when the provider call of a request fails with message m, the request is
\* answered 500 with {error: m}, m unchanged, and the server keeps listening.
C2_FailurePassThrough ==
  \A r \in Slots :
    (req[r].phase = "done" /\ req[r].promise.state = "rejected")
      => /\ req[r].res = [status |-> 500, url |-> Undefined,
                          error |-> Str(req[r].promise.value)]
         /\ proc = "listening"
C2_Witness ==
  \E r \in Slots :
    /\ req[r].phase = "done"
    /\ req[r].promise = [state |-> "rejected", value |-> "auth failed"]
    /\ req[r].res.status = 500
    /\ req[r].res.error = Str("auth failed")

\* C3: when the price is absent or a positive integer and the provider call
\* succeeds with url u, the request is answered 200 with {url: u}, u unchanged.
C3_SuccessPassThrough ==
  \A r \in Slots :
    (/\ req[r].phase = "done"
     /\ ~Present(req[r].body, "price") \/ PositiveInteger(req[r].body.price)
     /\ req[r].promise.state = "fulfilled")
      => req[r].res = [status |-> 200, url |-> Str(req[r].promise.value), error |-> Undefined]
C3_Witness ==
  \E r \in Slots :
    /\ req[r].phase = "done"
    /\ req[r].body.price = Num(1, 1)
    /\ req[r].promise = [state |-> "fulfilled", value |-> "https://payments.example/session/abc"]
    /\ req[r].res.status = 200
    /\ req[r].res.url = Str("https://payments.example/session/abc")

\* C4: an empty or missing body yields the descriptor 1500 / 1 / "Test Product";
\* each absent field takes its default on its own, and each present field reaches
\* the descriptor with its value (a name that is not a string in its string form).
C4_DefaultsAndPassThrough ==
  \A r \in Slots :
    LET b == req[r].body IN
    /\ (Handled(r) /\ ~Present(b, "price") /\ ~Present(b, "quantity") /\ ~Present(b, "name"))
         => /\ Len(stripeCalls[r]) = 1
            /\ Descriptor(r).unit_amount = Num(1500, 1)
            /\ Descriptor(r).quantity = Num(1, 1)
            /\ Descriptor(r).name = "Test Product"
    /\ Called(r)
         => /\ Descriptor(r).unit_amount = (IF Present(b, "price") THEN b.price ELSE Num(1500, 1))
            /\ Descriptor(r).quantity = (IF Present(b, "quantity") THEN b.quantity ELSE Num(1, 1))
            /\ ~Present(b, "name") => Descriptor(r).name = "Test Product"
            /\ (Present(b, "name") /\ b.name.t = "string") => Descriptor(r).name = b.name.s
            /\ b.name = Num(5, 1) => Descriptor(r).name = "5"
C4_Witness ==
  \E r \in Slots :
    /\ req[r].body = Body(Num(2000, 1), Num(0, 1), Undefined)
    /\ Called(r)
    /\ Descriptor(r).unit_amount = Num(2000, 1)
    /\ Descriptor(r).quantity = Num(0, 1)
    /\ Descriptor(r).name = "Test Product"

\* C5 as stated: the quantity of every descriptor sent to the provider is an
\* integer, whatever the request carried.
C5_QuantityAlwaysInteger ==
  \A r \in Slots : \A i \in DOMAIN stripeCalls[r] : IsInteger(stripeCalls[r][i].quantity)

\* C5 as amended: a present quantity is forwarded as it came, without coercion
\* and without a positivity check, so that the descriptor's quantity is an
\* integer exactly when the request's quantity is one (or is absent).
C5_QuantityForwardedUnchanged ==
  \A r \in Slots :
    Called(r) =>
      LET b == req[r].body IN
      /\ Present(b, "quantity") => Descriptor(r).quantity = b.quantity
      /\ IsInteger(Descriptor(r).quantity)
           <=> (~Present(b, "quantity") \/ (b.quantity.t = "number" /\ b.quantity.d = 1))
C5_Witness ==
  \E r \in Slots :
    /\ Called(r)
    /\ req[r].body.quantity = Num(3, 2)
    /\ Descriptor(r).quantity = Num(3, 2)

\* C6: with STRIPE_SECRET_KEY missing (unset or empty) the process never
\* listens, never handles a request and never calls the provider.
C6_NoSecretNoService ==
  (env.STRIPE_SECRET_KEY.t = "undefined" \/ env.STRIPE_SECRET_KEY = Str(""))
    => /\ proc \in {"boot", "exited"}
       /\ \A r \in Slots : req[r] = Idle /\ stripeCalls[r] = <<>>
C6_Witness ==
  /\ env.STRIPE_SECRET_KEY = Str("")
  /\ proc = "exited"

\* C7 as stated: a request that passes price validation causes exactly one
\* provider call, a request that fails it none.
C7_ExactlyOneCallPerValidRequest ==
  \A r \in Slots :
    Handled(r) =>
      Len(stripeCalls[r]) =
        (IF ~Present(req[r].body, "price") \/ PositiveInteger(req[r].body.price) THEN 1 ELSE 0)

ServedAlone(b, p) ==
  IF Present(b, "price") /\ ~PositiveInteger(b.price)
  THEN [status |-> 400, url |-> Undefined,
        error |-> Str("price must be a positive integer (in cents)")]
  ELSE IF Present(b, "name") /\ b.name = Obj(TRUE)
  THEN [status |-> 500, url |-> Undefined, error |-> Str("Cannot convert object to primitive value")]
  ELSE IF p.state = "fulfilled"
  THEN [status |-> 200, url |-> Str(p.value), error |-> Undefined]
  ELSE [status |-> 500, url |-> Undefined, error |-> Str(p.value)]

\* C9: under every interleaving, the response of a request is the one it would
\* get served alone, and a step of one handler changes no other request's state.
C9_Independent ==
  /\ [](\A r \in Slots :
          req[r].phase = "done" => req[r].res = ServedAlone(req[r].body, req[r].promise))
  /\ [][\A r, q \in Slots :
          (r # q /\ req'[r] # req[r])
            => (req'[q] = req[q] /\ stripeCalls'[q] = stripeCalls[q])]_vars
C9_Witness ==
  \E r, q \in Slots :
    /\ r < q
    /\ req[r].phase = "done" /\ req[q].phase = "done"
    /\ req[r].promise = [state |-> "rejected", value |-> "auth failed"]
    /\ req[q].promise = [state |-> "fulfilled", value |-> "X"]
    /\ req[r].res.status = 500
    /\ req[q].res.url = Str("X")

\* C10: once handleCheckout has run to its end, the browser has navigated (to
\* the reply's url) exactly when the reply is JSON carrying a truthy url;
\* otherwise the alert shows the reply's error, 'Unknown error' when it has
\* none, or 'Request failed' when the request or reading the reply threw;
\* loading is true while the handler runs and false after it, and the handler
\* issues one fetch.
C10_ClientOutcome ==
  /\ fetches <= 1
  /\ cpc # "idle" => (loading /\ location = "" /\ alert = "")
  /\ (cpc = "idle" /\ fetches = 1) =>
       /\ ~loading
       /\ location # "" <=> (reply.kind = "object" /\ reply.url.t = "string" /\ reply.url.s # "")
       /\ location # "" => (location = reply.url.s /\ alert = "")
       /\ location = "" =>
            alert = (IF reply.kind \in {"failed", "invalid", "null"} THEN "Request failed"
                     ELSE IF reply.error.t = "string" /\ reply.error.s # "" THEN reply.error.s
                     ELSE "Unknown error")
C10_Witness ==
  /\ cpc = "idle"
  /\ fetches = 1
  /\ ~loading
  /\ location = ""
  /\ reply.kind = "object"
  /\ alert = "price must be a positive integer (in cents)"

====
